---- MODULE Spec2Model ----
(***************************************************************************)
(* Price comparables aggregation engine of src/app.py: currency parser,    *)
(* listing deduplicator, statistics engine, source fetchers, fetch cascade *)
(* and TTL cache behind get_comps.                                          *)
(*                                                                         *)
(* Representation.  A text is a sequence of one-character strings (the     *)
(* token "nbsp" is U+00A0, "sup2" is U+00B2).  A parsed decimal is the     *)
(* pair (m, d) denoting m / 10^d.  A price_gbp that went through            *)
(* round(v, 2) is held as an integer number of pence.  None is NoValue.    *)
(***************************************************************************)
EXTENDS Integers, Sequences, FiniteSets, TLC

\* ------------------------------------------------------------------------
\* Bounds of the model
\* ------------------------------------------------------------------------
MaxTextLen == 4

MaxTicks == 2

MaxCalls == 2

NumThreads == 2

MaxListLen == 4

MaxPrices == 20

\* longest price sequence handed to pct and iqr_filter
MaxSeqLen == 6

\* longest enumerated attribute handed to normalize_query
MaxAttrLen == 2

\* ------------------------------------------------------------------------
\* Generic helpers
\* ------------------------------------------------------------------------
NoValue == -1

Min2(a, b) == IF a <= b THEN a ELSE b

Max2(a, b) == IF a >= b THEN a ELSE b

SetMin(S) == CHOOSE x \in S : \A y \in S : x <= y

RECURSIVE Pow10(_)
Pow10(n) == IF n = 0 THEN 1 ELSE 10 * Pow10(n - 1)

Take(s, n) == SubSeq(s, 1, Min2(Len(s), n))

\* ------------------------------------------------------------------------
\* Characters
\* ------------------------------------------------------------------------
Digits == {"0", "1", "2", "3", "4", "5", "6", "7", "8", "9"}

DigitVal(c) ==
    CASE c = "0" -> 0 [] c = "1" -> 1 [] c = "2" -> 2 [] c = "3" -> 3
      [] c = "4" -> 4 [] c = "5" -> 5 [] c = "6" -> 6 [] c = "7" -> 7
      [] c = "8" -> 8 [] c = "9" -> 9

\* str.isdigit(): the ASCII digits and also characters such as U+00B2
IsDigitCh == Digits \cup {"sup2"}

\* \s of a str pattern and str.strip(): Unicode white space, NBSP included
WhiteSpace == {" ", "nbsp"}

\* \w of a str pattern, as far as the model's alphabet goes
WordChars == IsDigitCh \cup {"G", "B", "P", "g", "b", "p", "x", "_"}

\* the class [0-9\s,\.] of CURRENCY_RXES
RunClass == Digits \cup WhiteSpace \cup {",", "."}

\* ------------------------------------------------------------------------
\* Python float / round on decimals
\* ------------------------------------------------------------------------
\* round(m / 10^d, 2) in pence.  Ties are resolved to the even neighbour, as
\* round() does on an exactly representable tie.
Round2(m, d) ==
    IF d <= 2 THEN m * Pow10(2 - d)
    ELSE LET unit == Pow10(d - 2)
             qt   == m \div unit
             r    == m % unit
         IN  IF 2 * r > unit THEN qt + 1
             ELSE IF 2 * r < unit THEN qt
             ELSE IF qt % 2 = 0 THEN qt ELSE qt + 1

\* float(s2) for s2 made of isdigit characters and at most one dot
RECURSIVE DigitsToInt(_)
DigitsToInt(s) ==
    IF s = <<>> THEN 0
    ELSE 10 * DigitsToInt(SubSeq(s, 1, Len(s) - 1)) + DigitVal(s[Len(s)])

DotPos(s) == IF \E i \in 1..Len(s) : s[i] = "."
             THEN CHOOSE i \in 1..Len(s) : s[i] = "."
             ELSE 0

FloatOf(s2) ==
    LET ds == SelectSeq(s2, LAMBDA c : c # ".")
        dp == DotPos(s2)
    IN  IF ds = <<>> \/ \E i \in 1..Len(ds) : ds[i] \notin Digits
        THEN [ok |-> FALSE, m |-> 0, d |-> 0]
        ELSE [ok |-> TRUE, m |-> DigitsToInt(ds),
              d |-> IF dp = 0 THEN 0 ELSE Len(s2) - dp]

\* ------------------------------------------------------------------------
\* _normalize_amount_string
\* ------------------------------------------------------------------------
RECURSIVE Strip(_)
Strip(s) ==
    IF s = <<>> THEN s
    ELSE IF Head(s) \in WhiteSpace THEN Strip(Tail(s))
    ELSE IF s[Len(s)] \in WhiteSpace THEN Strip(SubSeq(s, 1, Len(s) - 1))
    ELSE s

Contains(s, c) == \E i \in 1..Len(s) : s[i] = c

ReplaceCh(s, a, b) == [i \in 1..Len(s) |-> IF s[i] = a THEN b ELSE s[i]]

RemoveCh(s, a) == SelectSeq(s, LAMBDA c : c # a)

\* "Keep digits + at most one dot"
RECURSIVE Cleaned(_, _)
Cleaned(s, dot) ==
    IF s = <<>> THEN <<>>
    ELSE LET ch == Head(s)
         IN  IF ch \in IsDigitCh THEN <<ch>> \o Cleaned(Tail(s), dot)
             ELSE IF ch = "." /\ ~dot THEN <<".">> \o Cleaned(Tail(s), TRUE)
             ELSE Cleaned(Tail(s), dot)

AmountValueMut(s2) == [m |-> FloatOf(s2).m, d |-> FloatOf(s2).d]

\* "if '.' not in s2 and v >= 1000: v = v / 100.0" applied to v = f
LikelyPence(f, nodot) ==
    IF nodot /\ f.m >= 1000
    THEN [m |-> f.m, d |-> 2]
    ELSE [m |-> f.m, d |-> f.d]

\* the decimal (m, d) that reaches the range test, after the pence heuristic
AmountValue(s2) == LikelyPence(FloatOf(s2), ~Contains(s2, "."))

\* 0 < v < 10000
InRange(v) == v.m > 0 /\ v.m < 10000 * Pow10(v.d)

SeparatorsMut(s) == RemoveCh(s, ",")

\* comma without dot: decimal comma; otherwise commas are dropped
Separators(s) ==
    IF Contains(s, ",") /\ ~Contains(s, ".")
    THEN ReplaceCh(s, ",", ".")
    ELSE RemoveCh(s, ",")

\* "if 0 < v < 10000: return round(v, 2)"
RangeRound(v) == IF InRange(v) THEN Round2(v.m, v.d) ELSE NoValue

\* from "if not s2" on: s2 is the cleaned string
NormalizeCleaned(s2) ==
    IF s2 = <<>> THEN NoValue
    ELSE IF ~FloatOf(s2).ok THEN NoValue
    ELSE RangeRound(AmountValue(s2))

_normalize_amount_string(s) ==
    IF s = <<>> THEN NoValue
    ELSE NormalizeCleaned(
             Cleaned(Separators(Strip(ReplaceCh(Strip(s), "nbsp", " "))),
                     FALSE))

\* ------------------------------------------------------------------------
\* CURRENCY_RXES and extract_price_from_text
\* ------------------------------------------------------------------------
\* first index >= i that is past the end or not white space
SkipWs(s, i) ==
    SetMin({j \in i..(Len(s) + 1) : j = Len(s) + 1 \/ s[j] \notin WhiteSpace})

\* last index of the greedy run [0-9\s,\.]* that starts at the digit s[i]
RunEnd(s, i) ==
    SetMin({j \in i..Len(s) : j = Len(s) \/ s[j + 1] \notin RunClass})

PoundStarts(s) ==
    {i \in 1..Len(s) :
        /\ s[i] = "£"
        /\ SkipWs(s, i + 1) <= Len(s)
        /\ s[SkipWs(s, i + 1)] \in Digits}

\* group 1 of the leftmost match of  £\s*([0-9][0-9\s,\.]*) , <<>> if none
\* the greedy run that starts at the digit s[j]
RunAt(s, j) == SubSeq(s, j, RunEnd(s, j))

PoundGroup(s) ==
    IF PoundStarts(s) = {} THEN <<>>
    ELSE RunAt(s, SkipWs(s, SetMin(PoundStarts(s)) + 1))

IsGBPAt(s, k) ==
    /\ k + 2 <= Len(s)
    /\ s[k] \in {"G", "g"}
    /\ s[k + 1] \in {"B", "b"}
    /\ s[k + 2] \in {"P", "p"}
    /\ (k + 3 <= Len(s) => s[k + 3] \notin WordChars)

CodeStarts(s) ==
    {i \in 1..Len(s) : s[i] \in Digits /\ IsGBPAt(s, RunEnd(s, i) + 1)}

\* group 1 of the leftmost match of  ([0-9][0-9\s,\.]*)\s*GBP\b , <<>> if none
CodeGroup(s) ==
    IF CodeStarts(s) = {} THEN <<>>
    ELSE RunAt(s, SetMin(CodeStarts(s)))

\* "if v is not None: return v", else what follows
OrElse(v, rest) == IF v # NoValue THEN v ELSE rest

\* "if m: v = _normalize_amount_string(m.group(1))"; g = <<>> is no match
GroupPrice(g) == IF g = <<>> THEN NoValue ELSE _normalize_amount_string(g)

extract_price_from_text(text) ==
    IF text = <<>> THEN NoValue
    ELSE OrElse(GroupPrice(PoundGroup(text)),
                OrElse(GroupPrice(CodeGroup(text)),
                       _normalize_amount_string(text)))

\* ------------------------------------------------------------------------
\* _coerce_price_gbp_from_api_item
\* ------------------------------------------------------------------------
\* A JSON field of an item: absent (or of a type the code ignores), a string
\* s, or a number m / 10^d.
Absent == [kind |-> "absent", s |-> <<>>, m |-> 0, d |-> 0]

Str(s) == [kind |-> "str", s |-> s, m |-> 0, d |-> 0]

Num(m, d) == [kind |-> "num", s |-> <<>>, m |-> m, d |-> d]

PriceKeys == <<"price", "price_numeric", "total_item_price">>

StrPrice(f) == IF f.kind = "str" THEN extract_price_from_text(f.s) ELSE NoValue

\* the numeric branch: "likely pence" from 100 up, else pounds in (0, 10000)
NumPrice(f) ==
    IF f.kind # "num" THEN NoValue
    ELSE IF f.m >= 100 * Pow10(f.d) THEN Round2(f.m, f.d + 2)
    ELSE IF f.m > 0 /\ f.m < 10000 * Pow10(f.d) THEN Round2(f.m, f.d)
    ELSE NoValue

\* first string-valued key, in PriceKeys order from k on, that parses
RECURSIVE FirstStrPrice(_, _)
FirstStrPrice(it, k) ==
    IF k > Len(PriceKeys) THEN NoValue
    ELSE OrElse(StrPrice(it[PriceKeys[k]]), FirstStrPrice(it, k + 1))

\* first numeric key, in PriceKeys order from k on, that yields a price
RECURSIVE FirstNumPrice(_, _)
FirstNumPrice(it, k) ==
    IF k > Len(PriceKeys) THEN NoValue
    ELSE OrElse(NumPrice(it[PriceKeys[k]]), FirstNumPrice(it, k + 1))

_coerce_price_gbp_from_api_item(it) ==
    OrElse(StrPrice(it.pwc_amount),
           OrElse(FirstStrPrice(it, 1), FirstNumPrice(it, 1)))

\* ------------------------------------------------------------------------
\* Configuration read from the environment at import, and the state
\* ------------------------------------------------------------------------
MAX_ITEMS == 40

EXAMPLES_LIMIT == 5

CACHE_TTL == 600

\* CLAMP_MIN and CLAMP_MAX defaults, in pence
CLAMP_MIN == 200

CLAMP_MAX == 50000

VARIABLES
    cfg,         \* the module-level configuration of src/app.py
    cache,       \* _cache: query -> {"t", "data"}, NoEntry when the key is absent
    clock,       \* time.time()
    ticks,       \* number of clock advances so far
    ncalls,      \* number of get_comps invocations started so far
    call,        \* per thread: position and locals of its get_comps invocation
    parse_text,  \* argument of extract_price_from_text
    parse_item,  \* argument of _coerce_price_gbp_from_api_item
    parse_out,   \* value returned by the parser under test
    parse_pc,
    uniq_in,     \* argument of uniq
    uniq_out,    \* list returned by uniq
    uniq_pc,
    stats_in,    \* argument of compute_stats
    stats_out,   \* dict returned by compute_stats
    stats_pc,
    math_in,     \* argument of pct and iqr_filter
    math_p,      \* the percentile asked of pct
    math_out,    \* value returned by the math helper under test
    math_pc,
    query_in,    \* (brand, item_type, size, colour) given to normalize_query
    query_out,   \* string returned by normalize_query
    query_pc,
    fetch_in,    \* what the session answers to the fetcher under test
    fetch_out,   \* list returned by the fetcher under test
    fetch_pc,
    pricing_cfg,    \* PricingService: base_url set or empty, request_func
                    \* given or not, logger enabled for WARNING or not
    pricing_cache,  \* PricingService._cache: key -> (expiry, estimate)
    pricing_clock,  \* PricingService._time_fn()
    pricing_ticks,  \* number of advances of pricing_clock so far
    pricing_n,      \* number of suggest_price calls started so far
    pricing_call,   \* position and locals of the suggest_price call
    pricing_log     \* requests handed to _fetch_remote, oldest first

vars == <<cfg, cache, clock, ticks, ncalls, call,
          parse_text, parse_item, parse_out, parse_pc,
          uniq_in, uniq_out, uniq_pc, stats_in, stats_out, stats_pc,
          math_in, math_p, math_out, math_pc,
          query_in, query_out, query_pc, fetch_in, fetch_out, fetch_pc,
          pricing_cfg, pricing_cache, pricing_clock, pricing_ticks,
          pricing_n, pricing_call, pricing_log>>

\* the settings the model varies; the others keep their defaults
DefaultCfg ==
    [ENABLE_OUTLIER_FILTER |-> TRUE, CLAMP_MIN |-> CLAMP_MIN,
     CLAMP_MAX |-> CLAMP_MAX, cloudscraper |-> TRUE]

\* ------------------------------------------------------------------------
\* Listings and uniq
\* ------------------------------------------------------------------------
\* url of a listing: "abs" an absolute string .../items/<id>, "base" the
\* string VINTED_BASE, "list" a non-string JSON value (array or object) that
\* the API fetcher copied from the upstream item.
Url(kind, id) == [kind |-> kind, id |-> id]

Listing(title, price_gbp, url) ==
    [title |-> title, price_gbp |-> price_gbp, url |-> url]

KeyMut(it) == <<it.url, it.title>>

\* key = (it.get("url"), it.get("title"), it.get("price_gbp"))
Key(it) == <<it.url, it.title, it.price_gbp>>

\* hash(key) raises TypeError when a component is a list or a dict
Hashable(it) == it.url.kind # "list"

RECURSIVE UniqLoop(_, _, _)
UniqLoop(items, seen, out) ==
    IF items = <<>> THEN out
    ELSE IF Key(Head(items)) \notin seen
         THEN UniqLoop(Tail(items), seen \cup {Key(Head(items))},
                       Append(out, Head(items)))
         ELSE UniqLoop(Tail(items), seen, out)

UniqRaises(items) == \E i \in 1..Len(items) : ~Hashable(items[i])

uniq(items) == UniqLoop(items, {}, <<>>)

\* ------------------------------------------------------------------------
\* Math helpers: pct, median, iqr_filter.  Prices are pence; a percentile is
\* held in quarter pence, which is exact for p in {25, 50, 75}.
\* ------------------------------------------------------------------------
RECURSIVE Insert(_, _)
Insert(v, s) ==
    IF s = <<>> THEN <<v>>
    ELSE IF v <= Head(s) THEN <<v>> \o s
    ELSE <<Head(s)>> \o Insert(v, Tail(s))

RECURSIVE Sorted(_)
Sorted(s) == IF s = <<>> THEN <<>> ELSE Insert(Head(s), Sorted(Tail(s)))

pctMut(values, p) ==
    IF values = <<>> THEN NoValue
    ELSE LET k4 == (Len(values) - 1) * (p \div 25)
             f  == k4 \div 4
             c  == IF k4 % 4 = 0 THEN f ELSE f + 1
         IN  IF f = c THEN 4 * values[f + 1]
             ELSE values[f + 1] * (4 * c - k4) + values[c + 1] * (k4 - 4 * f)

\* 4 * pct(values, p) for p a multiple of 25; NoValue for an empty list
pct(values, p) ==
    IF values = <<>> THEN NoValue
    ELSE LET arr == Sorted(values)
             k4  == (Len(arr) - 1) * (p \div 25)
             f   == k4 \div 4
             c   == IF k4 % 4 = 0 THEN f ELSE f + 1
         IN  IF f = c THEN 4 * arr[f + 1]
             ELSE arr[f + 1] * (4 * c - k4) + arr[c + 1] * (k4 - 4 * f)

median(values) == pct(values, 50)

\* round(x, 2) of a value x held in quarter pence; ties to the even neighbour
RoundQ(x4) ==
    LET qt == x4 \div 4
        r  == x4 % 4
    IN  IF r > 2 THEN qt + 1
        ELSE IF r < 2 THEN qt
        ELSE IF qt % 2 = 0 THEN qt ELSE qt + 1

\* fences at 0.5 * IQR
iqr_filterNarrowMut(vals) ==
    IF Len(vals) < 6 THEN vals
    ELSE LET q1   == pct(vals, 25)
             q3   == pct(vals, 75)
             iqr  == q3 - q1
             lo8  == 2 * q1 - iqr
             hi8  == 2 * q3 + iqr
         IN  SelectSeq(vals, LAMBDA v : lo8 <= 8 * v /\ 8 * v <= hi8)

\* the length test taken two elements too low
iqr_filterMut(vals) ==
    IF Len(vals) < 4 THEN vals
    ELSE LET q1   == pct(vals, 25)
             q3   == pct(vals, 75)
             iqr  == q3 - q1
             lo8  == 2 * q1 - 3 * iqr
             hi8  == 2 * q3 + 3 * iqr
         IN  SelectSeq(vals, LAMBDA v : lo8 <= 8 * v /\ 8 * v <= hi8)

iqr_filter(vals) ==
    IF Len(vals) < 6 THEN vals
    ELSE LET q1   == pct(vals, 25)
             q3   == pct(vals, 75)
             iqr  == q3 - q1
             lo8  == 2 * q1 - 3 * iqr
             hi8  == 2 * q3 + 3 * iqr
         IN  SelectSeq(vals, LAMBDA v : lo8 <= 8 * v /\ 8 * v <= hi8)

\* ------------------------------------------------------------------------
\* compute_stats
\* ------------------------------------------------------------------------
PricesOf(items) ==
    LET nums == SelectSeq(items, LAMBDA x : x.price_gbp # NoValue)
    IN  [i \in 1..Len(nums) |-> nums[i].price_gbp]

ClampThresholdMut(raw) == Max2(6, (Len(raw) + 2) \div 3)

\* the floor of six survivors lowered to three
ClampThresholdLowMut(raw) == Max2(3, Len(raw) \div 3)

\* max(6, len(raw)//3)
ClampThreshold(raw) == Max2(6, Len(raw) \div 3)

Clamped(prices) ==
    SelectSeq(prices, LAMBDA v : cfg.CLAMP_MIN <= v /\ v <= cfg.CLAMP_MAX)

\* the clamped list kept however few prices survive
AfterClampMut(raw) == Clamped(raw)

\* prices = clamped if len(clamped) >= max(6, len(raw)//3) else raw
AfterClamp(raw) ==
    IF Len(Clamped(raw)) >= ClampThreshold(raw) THEN Clamped(raw) ELSE raw

compute_statsMut(items) ==
    LET raw    == PricesOf(items)
        prices == IF cfg.ENABLE_OUTLIER_FILTER
                  THEN iqr_filter(AfterClamp(raw))
                  ELSE AfterClamp(raw)
    IN  [median |-> RoundQ(median(prices)),
         p25 |-> RoundQ(pct(prices, 25)),
         p75 |-> RoundQ(pct(prices, 75)),
         used_count |-> Len(prices), raw_count |-> Len(raw),
         prices |-> prices]

\* the two quartiles exchanged
compute_statsSwapMut(items) ==
    LET raw    == PricesOf(items)
        prices == IF cfg.ENABLE_OUTLIER_FILTER
                  THEN iqr_filter(AfterClamp(raw))
                  ELSE AfterClamp(raw)
    IN  IF prices = <<>>
        THEN [median |-> NoValue, p25 |-> NoValue, p75 |-> NoValue,
              used_count |-> 0, raw_count |-> Len(raw), prices |-> <<>>]
        ELSE [median |-> RoundQ(median(prices)),
              p25 |-> RoundQ(pct(prices, 75)),
              p75 |-> RoundQ(pct(prices, 25)),
              used_count |-> Len(prices), raw_count |-> Len(raw),
              prices |-> prices]

compute_stats(items) ==
    LET raw    == PricesOf(items)
        prices == IF cfg.ENABLE_OUTLIER_FILTER
                  THEN iqr_filter(AfterClamp(raw))
                  ELSE AfterClamp(raw)
    IN  IF prices = <<>>
        THEN [median |-> NoValue, p25 |-> NoValue, p75 |-> NoValue,
              used_count |-> 0, raw_count |-> Len(raw), prices |-> <<>>]
        ELSE [median |-> RoundQ(median(prices)),
              p25 |-> RoundQ(pct(prices, 25)),
              p75 |-> RoundQ(pct(prices, 75)),
              used_count |-> Len(prices), raw_count |-> Len(raw),
              prices |-> prices]

\* ------------------------------------------------------------------------
\* normalize_query
\* ------------------------------------------------------------------------
\* str.split(): the maximal runs of non-white-space characters
RECURSIVE SplitWs(_, _)
SplitWs(s, word) ==
    IF s = <<>> THEN (IF word = <<>> THEN <<>> ELSE <<word>>)
    ELSE IF Head(s) \in WhiteSpace
         THEN (IF word = <<>> THEN <<>> ELSE <<word>>) \o SplitWs(Tail(s), <<>>)
         ELSE SplitWs(Tail(s), Append(word, Head(s)))

\* " ".join(parts)
RECURSIVE JoinSp(_)
JoinSp(parts) ==
    IF parts = <<>> THEN <<>>
    ELSE IF Len(parts) = 1 THEN parts[1]
    ELSE parts[1] \o <<" ">> \o JoinSp(Tail(parts))

\* without the final " ".join(q.split())
normalize_queryMut(brand, item_type, size, colour) ==
    LET stripped == <<Strip(brand), Strip(item_type), Strip(size), Strip(colour)>>
        parts    == SelectSeq(stripped, LAMBDA x : x # <<>>)
    IN  JoinSp(parts)

normalize_query(brand, item_type, size, colour) ==
    LET stripped == <<Strip(brand), Strip(item_type), Strip(size), Strip(colour)>>
        parts    == SelectSeq(stripped, LAMBDA x : x # <<>>)
    IN  JoinSp(SplitWs(JoinSp(parts), <<>>))

\* ------------------------------------------------------------------------
\* Upstream responses
\* ------------------------------------------------------------------------
\* One item of the JSON list.  isDict = FALSE is an element that is not a
\* JSON object (it.get raises).  url / path are Url records of kind "none"
\* (missing or falsy), "rel" (string starting with "/"), "abs" or "list".
ApiItem(title, pwc_amount, price, price_numeric, url, path, id) ==
    [isDict |-> TRUE, title |-> title, description |-> <<>>,
     brand_title |-> <<>>, pwc_amount |-> pwc_amount, price |-> price,
     price_numeric |-> price_numeric, total_item_price |-> Absent,
     url |-> url, path |-> path, id |-> id]

NotADict == [ApiItem(<<>>, Absent, Absent, Absent, Url("none", 0),
                     Url("none", 0), 0) EXCEPT !.isDict = FALSE]

\* Response to one GET of the API fetcher: "exc" (session.get raises),
\* "status" (status_code != 200), "badjson" (r.json() raises), "array" (the
\* JSON value has no .get), "obj" (a JSON object with "items" and "data").
ApiResp(kind, items, data) == [kind |-> kind, items |-> items, data |-> data]

\* Response to the GET of the HTML fetcher: "exc", "status" or "page" with
\* the anchors matched by a[href*='/items/'].
HtmlResp(kind, anchors) == [kind |-> kind, anchors |-> anchors]

\* texts: get_text of the anchor, of its parent, of its grandparent
Anchor(href, label, texts) == [href |-> href, label |-> label, texts |-> texts]

\* ------------------------------------------------------------------------
\* fetch_vinted_api
\* ------------------------------------------------------------------------
ItemWord == <<"I", "t", "e", "m">>

TITLE_MAX == 120

ApiTitle(it) ==
    IF it.title # <<>> THEN it.title
    ELSE IF it.description # <<>> THEN it.description
    ELSE IF it.brand_title # <<>> THEN it.brand_title
    ELSE ItemWord

\* web_url as stored in the listing
ApiUrl(it) ==
    LET first == IF it.url.kind # "none" THEN it.url ELSE it.path
    IN  IF first.kind = "rel" THEN Url("abs", first.id)
        ELSE IF first.kind # "none" THEN first
        ELSE IF it.id # 0 THEN Url("abs", it.id)
        ELSE Url("base", 0)

\* "if price_gbp is None: continue", else results.append({...})
ApiAppend(results, it, price_gbp) ==
    IF price_gbp = NoValue THEN results
    ELSE Append(results,
                Listing(Take(ApiTitle(it), TITLE_MAX), price_gbp, ApiUrl(it)))

\* the loop over the items of one response; raised = an exception left it
RECURSIVE ApiLoop(_, _)
ApiLoop(its, results) ==
    IF its = <<>> THEN [results |-> results, raised |-> FALSE]
    ELSE IF ~Head(its).isDict THEN [results |-> results, raised |-> TRUE]
    ELSE ApiLoop(Tail(its),
                 ApiAppend(results, Head(its),
                           _coerce_price_gbp_from_api_item(Head(its))))

\* "if results: break", reached only when the item loop l did not raise
ApiBreak(l) == [results |-> l.results, brk |-> ~l.raised /\ l.results # <<>>]

\* one iteration of "for url in api_urls"; brk = the loop ends here
ApiAttempt(resp, results) ==
    IF resp.kind \in {"exc", "badjson", "array", "status"}
    THEN [results |-> results, brk |-> FALSE]
    ELSE ApiBreak(ApiLoop(IF resp.items # <<>> THEN resp.items ELSE resp.data,
                          results))

\* the second of api_urls is tried unless the first attempt a1 broke out
ApiSecond(session, a1) ==
    IF a1.brk THEN a1.results
    ELSE ApiAttempt(session[2], a1.results).results

\* results when the loop over api_urls ends
ApiResults(session) == ApiSecond(session, ApiAttempt(session[1], <<>>))

\* the exception raised inside the try statement while resp is handled
\* with results so far, "none" when the body runs to its end
ApiFailure(resp, results) ==
    IF resp.kind = "exc" THEN "RequestException"
    ELSE IF resp.kind = "status" THEN "none"
    ELSE IF resp.kind = "badjson" THEN "ValueError"
    ELSE IF resp.kind = "array" THEN "AttributeError"
    ELSE IF ApiLoop(IF resp.items # <<>> THEN resp.items ELSE resp.data,
                    results).raised
         THEN "AttributeError"
    ELSE "none"

\* only transport and JSON errors are caught
CaughtMut(e) == e \in {"RequestException", "ValueError"}

\* "except Exception": every exception class of the model derives from it
Caught(e) == e \in {"RequestException", "ValueError", "AttributeError"}

Escapes(e) == e # "none" /\ ~Caught(e)

\* an exception leaves fetch_vinted_api
ApiEscapes(session) ==
    \/ Escapes(ApiFailure(session[1], <<>>))
    \/ /\ ~ApiAttempt(session[1], <<>>).brk
       /\ Escapes(ApiFailure(session[2], ApiAttempt(session[1], <<>>).results))

\* every api_url requested
ApiGetsMut(session) == <<"items">>

\* the urls session.get is called with, in order: "for url in api_urls"
\* until "if results: break"
ApiGets(session) ==
    IF ApiAttempt(session[1], <<>>).brk THEN <<"items">>
    ELSE <<"items", "items.json">>

\* session = the responses the session gives to the two api_urls, in order
fetch_vinted_api(session) == Take(ApiResults(session), MAX_ITEMS)

\* ------------------------------------------------------------------------
\* fetch_vinted_html
\* ------------------------------------------------------------------------
RECURSIVE FirstText(_)
FirstText(texts) ==
    IF texts = <<>> THEN NoValue
    ELSE OrElse(extract_price_from_text(Head(texts)), FirstText(Tail(texts)))

HtmlTitle(a) ==
    IF a.label # <<>> THEN a.label
    ELSE IF a.texts[1] # <<>> THEN a.texts[1]
    ELSE ItemWord

\* "if price_val is None: continue", else results.append({...})
HtmlAppend(results, a, price_val) ==
    IF price_val = NoValue THEN results
    ELSE Append(results,
                Listing(Take(HtmlTitle(a), TITLE_MAX), price_val,
                        Url("abs", a.href.id)))

RECURSIVE HtmlLoop(_, _)
HtmlLoop(anchors, results) ==
    IF anchors = <<>> THEN results
    ELSE HtmlLoop(Tail(anchors),
                  IF Head(anchors).href.kind = "none" THEN results
                  ELSE HtmlAppend(results, Head(anchors),
                                  FirstText(Head(anchors).texts)))

\* the exception raised inside the try statement of fetch_vinted_html
HtmlFailure(page) == IF page.kind = "exc" THEN "RequestException" ELSE "none"

\* an exception leaves fetch_vinted_html ("except Exception: return results")
HtmlEscapes(page) == Escapes(HtmlFailure(page))

\* the urls session.get is called with: the catalog page, once
HtmlGets(page) == <<"catalog">>

\* page = the response the session gives to the catalog GET
fetch_vinted_html(page) ==
    IF page.kind # "page" THEN <<>>
    ELSE HtmlLoop(Take(page.anchors, MAX_ITEMS), <<>>)

\* ------------------------------------------------------------------------
\* Inputs of the model: requests, configurations, upstream behaviours
\* ------------------------------------------------------------------------
NoUrl == Url("none", 0)

ItA == ApiItem(<<"A">>, Absent, Str(<<"£", "5">>), Absent,
               Url("abs", 1), NoUrl, 1)

ItB == ApiItem(<<"B">>, Str(<<"4", "7", ",", "9", "5">>), Absent, Absent,
               NoUrl, Url("rel", 2), 0)

ItC == ApiItem(<<"C">>, Absent, Absent, Num(1234, 0), NoUrl, NoUrl, 3)

\* "url" is a JSON array
ItListUrl == ApiItem(<<"A">>, Absent, Str(<<"£", "5">>), Absent,
                     Url("list", 0), NoUrl, 0)

\* numeric prices in pence: 10, 12, 11, 13, 14, 12 and 1000 pounds
SevenPrices == <<1000, 1200, 1100, 1300, 1400, 1200, 100000>>

SevenItems ==
    [i \in 1..7 |-> ApiItem(<<"T">>, Absent, Absent, Num(SevenPrices[i], 0),
                            NoUrl, NoUrl, 10 + i)]

Exc == ApiResp("exc", <<>>, <<>>)

ApiSessions ==
    { <<Exc, Exc>>,
      <<ApiResp("status", <<>>, <<>>), ApiResp("array", <<>>, <<>>)>>,
      <<ApiResp("obj", <<ItA, ItB, ItA, ItC>>, <<>>), Exc>>,
      <<ApiResp("badjson", <<>>, <<>>), ApiResp("obj", <<>>, <<ItListUrl>>)>>,
      <<ApiResp("obj", SevenItems, <<>>), Exc>> }

AnchorH1 == Anchor(Url("rel", 7), <<>>,
                   << <<"H">>, <<"H", " ", "£", "7", ".", "5", "0">>, <<>> >>)

AnchorH2 == Anchor(Url("abs", 8), <<"L">>,
                   << <<"1", "2", " ", "G", "B", "P">>, <<>>, <<>> >>)

AnchorNoPrice == Anchor(Url("rel", 9), <<>>, << <<"H">>, <<"x">>, <<"x">> >>)

HtmlPages ==
    { HtmlResp("exc", <<>>),
      HtmlResp("status", <<>>),
      HtmlResp("page", <<AnchorNoPrice>>),
      HtmlResp("page", <<AnchorH1, AnchorNoPrice, AnchorH2, AnchorH1>>) }

\* (brand, item_type, size, colour)
Requests ==
    { << <<"a">>, <<>>, <<>>, <<>> >>,
      << <<" ", "a">>, <<" ">>, <<>>, <<"nbsp">> >>,
      << <<"a">>, <<"b", " ", " ", "c">>, <<>>, <<>> >> }

Configs ==
    { DefaultCfg,
      [DefaultCfg EXCEPT !.ENABLE_OUTLIER_FILTER = FALSE,
                         !.cloudscraper = FALSE, !.CLAMP_MAX = 1250],
      [DefaultCfg EXCEPT !.CLAMP_MIN = 1100] }

\* what each fetcher returns for each upstream behaviour of the model
ApiReturn == [x \in ApiSessions |-> fetch_vinted_api(x)]

HtmlReturn == [x \in HtmlPages |-> fetch_vinted_html(x)]

\* the GETs each fetcher issues for each upstream behaviour of the model
ApiRequests == [x \in ApiSessions |-> ApiGets(x)]

HtmlRequests == [x \in HtmlPages |-> HtmlGets(x)]

\* ------------------------------------------------------------------------
\* get_comps: one invocation per thread, a step per blocking operation
\* ------------------------------------------------------------------------
Threads == 1..NumThreads

NoResult == [pending |-> TRUE]

IdleCall ==
    [pc |-> "idle", q |-> <<>>, now_ts |-> 0, items |-> <<>>, source |-> "",
     invoked |-> <<>>, result |-> NoResult]

ResultKeys ==
    {"query", "count", "median_price_gbp", "p25_gbp", "p75_gbp", "examples",
     "source", "outlier_filter", "clamp"}

\* data = dict(hit["data"]); data["cache"] = True
WithCacheFlag(data) ==
    [k \in DOMAIN data \cup {"cache"} |-> IF k = "cache" THEN TRUE ELSE data[k]]

FreshMut(key, now_ts) ==
    key \in DOMAIN cache /\ now_ts - cache[key].t <= CACHE_TTL

\* hit and (now_ts - hit["t"] < CACHE_TTL)
Fresh(key, now_ts) ==
    key \in DOMAIN cache /\ now_ts - cache[key].t < CACHE_TTL

AfterApiMut(items) == "html"

\* "if not items:" after the API fetch
AfterApi(items) == IF items = <<>> THEN "html" ELSE "finish"

\* "if not items and cloudscraper:" after the HTML fetch
AfterHtml(items) ==
    IF items = <<>> /\ cfg.cloudscraper THEN "cs_api" ELSE "finish"

\* "if not items:" after the cloudscraper API fetch
AfterCsApi(items) == IF items = <<>> THEN "cs_html" ELSE "finish"

Examples(items) ==
    [i \in 1..Min2(Len(items), EXAMPLES_LIMIT) |->
        Listing(items[i].title, items[i].price_gbp, items[i].url)]

CountOfMut(stats) == stats.used_count

\* "count": stats["raw_count"]
CountOf(stats) == stats.raw_count

BuildResult(q, items, source) ==
    LET stats == compute_stats(items)
    IN  [query |-> q, count |-> CountOf(stats),
         median_price_gbp |-> stats.median, p25_gbp |-> stats.p25,
         p75_gbp |-> stats.p75, examples |-> Examples(items),
         source |-> source, outlier_filter |-> cfg.ENABLE_OUTLIER_FILTER,
         clamp |-> [min |-> cfg.CLAMP_MIN, max |-> cfg.CLAMP_MAX]]

\* the log of the fetcher invocations of one get_comps call, with the GETs
\* each of them issued
Invoke(c, name, items, gets) ==
    Append(c.invoked, [fetcher |-> name, returned |-> items, gets |-> gets])

\* the clock is observed at multiples of half the TTL
TickStep == CACHE_TTL \div 2

\* time.time() advances between any two steps
Tick ==
    /\ ticks < MaxTicks
    /\ clock' = clock + TickStep
    /\ ticks' = ticks + 1
    /\ UNCHANGED <<cfg, cache, ncalls, call>>

\* the hit's entry refreshed and flagged, as if data aliased hit["data"]
CacheAfterHitMut(q) ==
    [cache EXCEPT ![q] = [t |-> clock, data |-> WithCacheFlag(@.data)]]

\* _cache after a hit on q: the flag goes to the copy dict(hit["data"])
CacheAfterHit(q) == cache

\* A thread takes the next request once its previous invocation has
\* returned or raised: normalize_query, time.time(), _cache.get and the
\* freshness test
Start(t, req) ==
    /\ call[t].pc \in {"idle", "returned", "raised"}
    /\ ncalls < MaxCalls
    /\ ncalls' = ncalls + 1
    /\ LET q == normalize_query(req[1], req[2], req[3], req[4])
       IN  call' = [call EXCEPT ![t] =
             IF Fresh(q, clock)
             THEN [IdleCall EXCEPT !.pc = "returned", !.q = q,
                                   !.result = WithCacheFlag(cache[q].data)]
             ELSE [IdleCall EXCEPT !.pc = "api", !.q = q, !.now_ts = clock]]
           /\ cache' = IF Fresh(q, clock) THEN CacheAfterHit(q) ELSE cache
    /\ UNCHANGED <<cfg, clock, ticks>>

\* 1) items = fetch_vinted_api(q, sess)
CallApi(t, session) ==
    /\ call[t].pc = "api"
    /\ LET items == ApiReturn[session]
       IN  call' = [call EXCEPT ![t].items = items,
                                ![t].source = "api",
                                ![t].invoked = Invoke(call[t], "api", items,
                                                      ApiRequests[session]),
                                ![t].pc = AfterApi(items)]
    /\ UNCHANGED <<cfg, cache, clock, ticks, ncalls>>

\* 2) items = fetch_vinted_html(q, sess)
CallHtml(t, page) ==
    /\ call[t].pc = "html"
    /\ LET items == HtmlReturn[page]
       IN  call' = [call EXCEPT ![t].items = items,
                                ![t].source = "html",
                                ![t].invoked = Invoke(call[t], "html", items,
                                                      HtmlRequests[page]),
                                ![t].pc = AfterHtml(items)]
    /\ UNCHANGED <<cfg, cache, clock, ticks, ncalls>>

\* 3) items = fetch_vinted_api(q, scraper_session)
CallCsApi(t, session) ==
    /\ call[t].pc = "cs_api"
    /\ LET items == ApiReturn[session]
       IN  call' = [call EXCEPT ![t].items = items,
                                ![t].source = "cloudscraper-api",
                                ![t].invoked =
                                    Invoke(call[t], "cloudscraper-api", items,
                                           ApiRequests[session]),
                                ![t].pc = AfterCsApi(items)]
    /\ UNCHANGED <<cfg, cache, clock, ticks, ncalls>>

\* the tag of the last fetcher whatever it returned
CsHtmlSourceMut(items, source) == "cloudscraper-html"

\* source = "cloudscraper-html" if items else source
CsHtmlSource(items, source) ==
    IF items # <<>> THEN "cloudscraper-html" ELSE source

\* items = fetch_vinted_html(q, scraper_session)
CallCsHtml(t, page) ==
    /\ call[t].pc = "cs_html"
    /\ LET items == HtmlReturn[page]
       IN  call' = [call EXCEPT ![t].items = items,
                                ![t].source =
                                    CsHtmlSource(items, call[t].source),
                                ![t].invoked =
                                    Invoke(call[t], "cloudscraper-html", items,
                                           HtmlRequests[page]),
                                ![t].pc = "finish"]
    /\ UNCHANGED <<cfg, cache, clock, ticks, ncalls>>

\* the new result stored under the timestamp of the entry it replaces
CacheWriteMut(q, now_ts, result) ==
    [k \in DOMAIN cache \cup {q} |->
        IF k # q THEN cache[k]
        ELSE IF q \in DOMAIN cache THEN [t |-> cache[q].t, data |-> result]
        ELSE [t |-> now_ts, data |-> result]]

\* a result without listings is not stored
CacheWriteSkipMut(q, now_ts, result) ==
    IF result.count = 0 THEN cache
    ELSE [k \in DOMAIN cache \cup {q} |->
            IF k = q THEN [t |-> now_ts, data |-> result] ELSE cache[k]]

\* _cache[cache_key] = {"t": now_ts, "data": result}
CacheWrite(q, now_ts, result) ==
    [k \in DOMAIN cache \cup {q} |->
        IF k = q THEN [t |-> now_ts, data |-> result] ELSE cache[k]]

\* uniq, compute_stats, result assembly, cache write, return; the TypeError
\* of uniq leaves get_comps before anything is written.  The frame is gone
\* once the invocation is over: only the outcome stays with the caller.
Finish(t) ==
    /\ call[t].pc = "finish"
    /\ IF UniqRaises(call[t].items)
       THEN /\ call' = [call EXCEPT ![t] =
                          [IdleCall EXCEPT !.pc = "raised", !.q = call[t].q]]
            /\ UNCHANGED cache
       ELSE LET items  == Take(uniq(call[t].items), MAX_ITEMS)
                result == BuildResult(call[t].q, items, call[t].source)
            IN  /\ call' = [call EXCEPT ![t] =
                          [IdleCall EXCEPT !.pc = "returned",
                                           !.q = call[t].q,
                                           !.result = result]]
                /\ cache' = CacheWrite(call[t].q, call[t].now_ts, result)
    /\ UNCHANGED <<cfg, clock, ticks, ncalls>>

\* ------------------------------------------------------------------------
\* Specification of the service: concurrent get_comps invocations
\* ------------------------------------------------------------------------
ParserIdle ==
    /\ parse_text = <<>>
    /\ parse_item = NotADict
    /\ parse_out = NoValue
    /\ parse_pc = "off"

UniqIdle == uniq_in = <<>> /\ uniq_out = <<>> /\ uniq_pc = "off"

StatsIdle == stats_in = <<>> /\ stats_out = NoResult /\ stats_pc = "off"

ServiceIdle ==
    /\ cache = <<>>
    /\ clock = 0
    /\ ticks = 0
    /\ ncalls = 0
    /\ call = [t \in Threads |-> IdleCall]

MathIdle == math_in = <<>> /\ math_p = 0 /\ math_out = NoValue /\ math_pc = "off"

parserVars == <<parse_text, parse_item, parse_out, parse_pc>>

uniqVars == <<uniq_in, uniq_out, uniq_pc>>

statsVars == <<stats_in, stats_out, stats_pc>>

mathVars == <<math_in, math_p, math_out, math_pc>>

queryVars == <<query_in, query_out, query_pc>>

fetchVars == <<fetch_in, fetch_out, fetch_pc>>

pricingVars == <<pricing_cfg, pricing_cache, pricing_clock, pricing_ticks,
                 pricing_n, pricing_call, pricing_log>>

harness == <<parserVars, uniqVars, statsVars, mathVars, queryVars, fetchVars,
             pricingVars>>

QueryIdle == query_in = <<>> /\ query_out = <<>> /\ query_pc = "off"

FetchIdle == fetch_in = <<>> /\ fetch_out = <<>> /\ fetch_pc = "off"

PricingIdle ==
    /\ pricing_cfg = [base_url |-> FALSE, injected |-> FALSE, warnings |-> TRUE]
    /\ pricing_cache = <<>>
    /\ pricing_clock = 0
    /\ pricing_ticks = 0
    /\ pricing_n = 0
    /\ pricing_call = [pc |-> "off"]
    /\ pricing_log = <<>>

service == <<cache, clock, ticks, ncalls, call>>

Init ==
    /\ cfg \in Configs
    /\ ServiceIdle
    /\ ParserIdle
    /\ UniqIdle
    /\ StatsIdle
    /\ MathIdle
    /\ QueryIdle
    /\ FetchIdle
    /\ PricingIdle

Next ==
    \/ Tick /\ UNCHANGED harness
    \/ \E t \in Threads, req \in Requests : Start(t, req) /\ UNCHANGED harness
    \/ \E t \in Threads, session \in ApiSessions :
          CallApi(t, session) /\ UNCHANGED harness
    \/ \E t \in Threads, page \in HtmlPages :
          CallHtml(t, page) /\ UNCHANGED harness
    \/ \E t \in Threads, session \in ApiSessions :
          CallCsApi(t, session) /\ UNCHANGED harness
    \/ \E t \in Threads, page \in HtmlPages :
          CallCsHtml(t, page) /\ UNCHANGED harness
    \/ \E t \in Threads : Finish(t) /\ UNCHANGED harness

Spec == Init /\ [][Next]_vars

\* ------------------------------------------------------------------------
\* Specification of the currency parser: extract_price_from_text on a text,
\* _coerce_price_gbp_from_api_item on an API item
\* ------------------------------------------------------------------------
TxtPounds1299 == <<"£", "1", ",", "2", "9", "9", ".", "0", "0">>

TxtComma4795 == <<"4", "7", ",", "9", "5">>

TxtPence4795 == <<"4", "7", "9", "5">>

TxtSpaced7108 == <<"7", "1", ".", "0", "8", " ", "1">>

TxtPounds99999 == <<"£", "9", "9", ",", "9", "9", "9">>

NamedTexts ==
    { TxtPounds1299, TxtComma4795, TxtPence4795, TxtSpaced7108, TxtPounds99999,
      <<"9", "9", "9", "9", ".", "9", "9", "9">>,
      <<"1", "2", " ", "G", "B", "P">>,
      <<"1", "2", " ", "g", "b", "p", "x">>,
      <<"£", "x", " ", "3", " ", "G", "B", "P">>,
      <<"£", "nbsp", "5">>,
      <<"1", "sup2">> }

\* no digit 5 among them: no enumerated decimal is a rounding tie
EnumChars == {"£", "0", "1", "9", ",", "."}

EnumTexts == UNION {[1..n -> EnumChars] : n \in 0..MaxTextLen}

Texts == NamedTexts \cup EnumTexts

PwcFields == {Absent, Str(<<"£", "5">>), Str(<<"x">>)}

PriceFields ==
    { Absent, Str(TxtPence4795), Str(<<"x">>),
      Num(1000000, 0), Num(100, 0), Num(99, 0), Num(0, 0), Num(0 - 5, 0),
      Num(123456, 1), Num(1, 3), Num(9999999, 3) }

NumericFields == {Absent, Num(4795, 0), Str(<<"£", "7">>)}

ParseItems ==
    { ApiItem(<<"A">>, a, b, c, NoUrl, NoUrl, 1) :
        a \in PwcFields, b \in PriceFields, c \in NumericFields }

ParseInit ==
    /\ cfg = DefaultCfg
    /\ ServiceIdle
    /\ UniqIdle
    /\ StatsIdle
    /\ MathIdle
    /\ QueryIdle
    /\ FetchIdle
    /\ PricingIdle
    /\ parse_out = NoValue
    /\ \/ parse_pc = "text" /\ parse_text \in Texts /\ parse_item = NotADict
       \/ parse_pc = "item" /\ parse_text = <<>> /\ parse_item \in ParseItems

ExtractPrice ==
    /\ parse_pc = "text"
    /\ parse_out' = extract_price_from_text(parse_text)
    /\ parse_pc' = "extracted"
    /\ UNCHANGED <<cfg, service, parse_text, parse_item,
                   uniqVars, statsVars, mathVars, queryVars, fetchVars,
                   pricingVars>>

CoercePrice ==
    /\ parse_pc = "item"
    /\ parse_out' = _coerce_price_gbp_from_api_item(parse_item)
    /\ parse_pc' = "coerced"
    /\ UNCHANGED <<cfg, service, parse_text, parse_item,
                   uniqVars, statsVars, mathVars, queryVars, fetchVars,
                   pricingVars>>

ParseNext == ExtractPrice \/ CoercePrice

ParseSpec == ParseInit /\ [][ParseNext]_vars

\* ------------------------------------------------------------------------
\* Specification of the deduplicator: uniq on a list of listings
\* ------------------------------------------------------------------------
LstA == Listing(<<"A">>, 500, Url("abs", 1))

LstB == Listing(<<"B">>, 500, Url("abs", 2))

LstC == Listing(<<"C">>, 700, Url("abs", 3))

\* LstA with another price, LstA with another title
LstA2 == Listing(<<"A">>, 600, Url("abs", 1))

LstA3 == Listing(<<"B">>, 500, Url("abs", 1))

\* a listing whose url is a JSON array
LstX == Listing(<<"A">>, 500, Url("list", 0))

UniqListings == {LstA, LstB, LstC, LstA2, LstA3, LstX}

UniqInit ==
    /\ cfg = DefaultCfg
    /\ ServiceIdle
    /\ ParserIdle
    /\ StatsIdle
    /\ MathIdle
    /\ QueryIdle
    /\ FetchIdle
    /\ PricingIdle
    /\ uniq_in \in UNION {[1..n -> UniqListings] : n \in 0..MaxListLen}
    /\ uniq_out = <<>>
    /\ uniq_pc = "input"

ApplyUniq ==
    /\ uniq_pc = "input"
    /\ IF UniqRaises(uniq_in)
       THEN uniq_pc' = "raised" /\ uniq_out' = <<>>
       ELSE uniq_pc' = "done" /\ uniq_out' = uniq(uniq_in)
    /\ UNCHANGED <<cfg, service, uniq_in, parserVars, statsVars, mathVars,
                   queryVars, fetchVars, pricingVars>>

UniqNext == ApplyUniq

UniqSpec == UniqInit /\ [][UniqNext]_vars

\* ------------------------------------------------------------------------
\* Specification of the statistics engine: compute_stats on listings whose
\* prices are a copies of 10.00, b copies of 30.00 and c copies of 1000.00
\* ------------------------------------------------------------------------
PriceList(a, b, c) ==
    [i \in 1..(a + b + c) |->
        IF i <= a THEN 1000 ELSE IF i <= a + b THEN 3000 ELSE 100000]

ListingsOf(prices) ==
    [i \in 1..Len(prices) |-> Listing(<<"T">>, prices[i], Url("abs", i))]

StatsInputs ==
    { ListingsOf(PriceList(a, b, c)) :
        a \in 0..MaxPrices, b \in 0..2, c \in 0..MaxPrices }
    \cup {ListingsOf(SevenPrices)}

StatsInit ==
    /\ cfg \in Configs
    /\ ServiceIdle
    /\ ParserIdle
    /\ UniqIdle
    /\ MathIdle
    /\ QueryIdle
    /\ FetchIdle
    /\ PricingIdle
    /\ stats_in \in {x \in StatsInputs : Len(x) <= MaxPrices}
    /\ stats_out = NoResult
    /\ stats_pc = "input"

ApplyStats ==
    /\ stats_pc = "input"
    /\ stats_out' = compute_stats(stats_in)
    /\ stats_pc' = "done"
    /\ UNCHANGED <<cfg, service, stats_in, parserVars, uniqVars, mathVars,
                   queryVars, fetchVars, pricingVars>>

StatsNext == ApplyStats

StatsSpec == StatsInit /\ [][StatsNext]_vars

\* ------------------------------------------------------------------------
\* Specification of the math helpers: pct and iqr_filter on a price sequence
\* ------------------------------------------------------------------------
MathPrices == {1000, 1300, 100000}

MathInputs == UNION {[1..n -> MathPrices] : n \in 0..MaxSeqLen}

MathInit ==
    /\ cfg = DefaultCfg
    /\ ServiceIdle
    /\ ParserIdle
    /\ UniqIdle
    /\ StatsIdle
    /\ QueryIdle
    /\ FetchIdle
    /\ PricingIdle
    /\ math_in \in MathInputs
    /\ math_out = NoValue
    /\ \/ math_pc = "pct" /\ math_p \in {25, 50, 75}
       \/ math_pc = "iqr" /\ math_p = 0

Percentile ==
    /\ math_pc = "pct"
    /\ math_out' = pct(math_in, math_p)
    /\ math_pc' = "pct_done"
    /\ UNCHANGED <<cfg, service, math_in, math_p, parserVars, uniqVars,
                   statsVars, queryVars, fetchVars, pricingVars>>

IqrFilter ==
    /\ math_pc = "iqr"
    /\ math_out' = iqr_filter(math_in)
    /\ math_pc' = "iqr_done"
    /\ UNCHANGED <<cfg, service, math_in, math_p, parserVars, uniqVars,
                   statsVars, queryVars, fetchVars, pricingVars>>

MathNext == Percentile \/ IqrFilter

MathSpec == MathInit /\ [][MathNext]_vars

\* ------------------------------------------------------------------------
\* Specification of the query builder: normalize_query on four attributes
\* ------------------------------------------------------------------------
NamedAttrs ==
    { <<"a", " ", " ", "b">>,
      <<"nbsp", "b", "nbsp">>,
      <<" ", "b", "nbsp", " ", "c", " ">> }

EnumAttrs == UNION {[1..n -> {"a", " "}] : n \in 0..MaxAttrLen}

Attrs == NamedAttrs \cup EnumAttrs

QueryInit ==
    /\ cfg = DefaultCfg
    /\ ServiceIdle
    /\ ParserIdle
    /\ UniqIdle
    /\ StatsIdle
    /\ MathIdle
    /\ FetchIdle
    /\ PricingIdle
    /\ query_in \in Attrs \X Attrs \X Attrs \X Attrs
    /\ query_out = <<>>
    /\ query_pc = "input"

NormalizeQuery ==
    /\ query_pc = "input"
    /\ query_out' = normalize_query(query_in[1], query_in[2], query_in[3],
                                    query_in[4])
    /\ query_pc' = "done"
    /\ UNCHANGED <<cfg, service, query_in, parserVars, uniqVars, statsVars,
                   mathVars, fetchVars, pricingVars>>

QueryNext == NormalizeQuery

QuerySpec == QueryInit /\ [][QueryNext]_vars

\* ------------------------------------------------------------------------
\* PricingService (pi-app): suggest_price, _fetch_remote, _build_estimate.
\* Amounts are pence; an attribute is a string, None being the empty one.
\* ------------------------------------------------------------------------
\* cache_ttl_seconds of PricingService.__init__
CACHE_TTL_SECONDS == 600

\* VINTED_PRICE_MIN_PENCE and VINTED_PRICE_MAX_PENCE of build_default_service
MIN_PRICE_PENCE == 50

MAX_PRICE_PENCE == 50000

\* str.lower() on the letters of the model
LowerCh(c) == IF c = "N" THEN "n" ELSE IF c = "R" THEN "r" ELSE c

Lower(x) == [i \in 1..Len(x) |-> LowerCh(x[i])]

\* (x or "").strip().lower()
KeyPart(x) == Lower(Strip(x))

\* key = (brand, category, size, condition), each stripped and lower-cased
PricingKey(r) ==
    <<KeyPart(r.brand), KeyPart(r.category), KeyPart(r.size),
      KeyPart(r.condition)>>

\* params = {"brand", "item_type", "size", "colour", "condition"}
PricingParams(r) ==
    [brand |-> r.brand, item_type |-> r.category, size |-> r.size,
     colour |-> r.colour, condition |-> r.condition]

\* PriceEstimate()
EmptyEstimate ==
    [low |-> NoValue, mid |-> NoValue, high |-> NoValue, examples |-> <<>>]

\* _clamp_float on None or a number of pence
_clamp_float(value) ==
    IF value = NoValue THEN NoValue
    ELSE IF value <= 0 THEN NoValue
    ELSE Max2(MIN_PRICE_PENCE, Min2(MAX_PRICE_PENCE, value))

\* payload: kind "none" (None or an empty dict), "dict", or "array" (a JSON
\* value without .get, on which _build_estimate raises AttributeError)
_build_estimate(payload) ==
    IF payload.kind = "none" THEN EmptyEstimate
    ELSE [low |-> _clamp_float(payload.p25_gbp),
          mid |-> _clamp_float(payload.median_price_gbp),
          high |-> _clamp_float(payload.p75_gbp),
          examples |-> Take(payload.examples, 5)]

BuildRaises(payload) == payload.kind = "array"

PricingFreshMut(key) ==
    key \in DOMAIN pricing_cache /\ pricing_cache[key].expiry >= pricing_clock

\* cached and cached[0] > self._time_fn()
PricingFresh(key) ==
    key \in DOMAIN pricing_cache /\ pricing_cache[key].expiry > pricing_clock

PricingCallIdle ==
    [pc |-> "idle", request |-> <<>>, key |-> <<>>, estimate |-> EmptyEstimate]

\* self._time_fn() advances between any two steps
PricingTick ==
    /\ pricing_ticks < MaxTicks
    /\ pricing_clock' = pricing_clock + CACHE_TTL_SECONDS \div 2
    /\ pricing_ticks' = pricing_ticks + 1
    /\ UNCHANGED <<pricing_cfg, pricing_cache, pricing_n, pricing_call,
                   pricing_log>>

\* suggest_price up to the await of _fetch_remote: the base_url test, the
\* key, and the cache lookup under the lock
Suggest(r) ==
    /\ pricing_call.pc \in {"idle", "returned", "raised"}
    /\ pricing_n < MaxCalls
    /\ pricing_n' = pricing_n + 1
    /\ pricing_call' =
          IF ~pricing_cfg.base_url
          THEN [PricingCallIdle EXCEPT !.pc = "returned", !.request = r]
          ELSE IF PricingFresh(PricingKey(r))
          THEN [pc |-> "returned", request |-> r, key |-> PricingKey(r),
                estimate |-> pricing_cache[PricingKey(r)].estimate]
          ELSE [PricingCallIdle EXCEPT !.pc = "fetch", !.request = r,
                                       !.key = PricingKey(r)]
    /\ UNCHANGED <<pricing_cfg, pricing_cache, pricing_clock, pricing_ticks,
                   pricing_log>>

\* the except clause of _fetch_remote is entered
HttpFails(answers) ==
    \/ answers[1].kind = "exc"
    \/ answers[1].kind = "status" /\ answers[2].kind = "exc"

\* logger.warning("pricing_fetch_failed", error=str(exc)) on a
\* logging.Logger: when the logger is enabled for WARNING, Logger._log gets
\* the keyword error it does not take and raises TypeError
HandlerRaises(answers) == HttpFails(answers) /\ pricing_cfg.warnings

\* _fetch_remote without a request_func: GET /api/price, then GET /price;
\* the first 200 answers, an exception ends the loop.
\* answers = what the two GETs would answer: kind "exc" (client.get or
\* resp.json() raises), "status" (not 200) or "ok" (200 with a JSON payload)
HttpPayload(answers) ==
    IF answers[1].kind = "ok" THEN answers[1].payload
    ELSE IF answers[1].kind = "exc" THEN [kind |-> "none"]
    ELSE IF answers[2].kind = "ok" THEN answers[2].payload
    ELSE [kind |-> "none"]

\* number of GETs issued
HttpGets(answers) == IF answers[1].kind = "status" THEN 2 ELSE 1

\* the log after the remote requests of one _fetch_remote
Logged(via, n, stored) ==
    pricing_log \o
        [i \in 1..n |-> [via |-> via, params |-> PricingParams(pricing_call.request),
                         stored |-> stored]]

\* self._cache[key] = (self._time_fn() + self.cache_ttl, estimate)
PricingWrite(key, estimate) ==
    [k \in DOMAIN pricing_cache \cup {key} |->
        IF k = key
        THEN [expiry |-> pricing_clock + CACHE_TTL_SECONDS, estimate |-> estimate]
        ELSE pricing_cache[k]]

\* the rest of suggest_price once the remote has given payload through n
\* requests: _build_estimate, the cache write under the lock, the return
Complete(via, n, payload) ==
    IF BuildRaises(payload)
    THEN /\ pricing_call' = [pricing_call EXCEPT !.pc = "raised"]
         /\ pricing_log' = Logged(via, n, FALSE)
         /\ UNCHANGED pricing_cache
    ELSE /\ pricing_call' = [pricing_call EXCEPT
                                !.pc = "returned",
                                !.estimate = _build_estimate(payload)]
         /\ pricing_log' = Logged(via, n, TRUE)
         /\ pricing_cache' =
                PricingWrite(pricing_call.key, _build_estimate(payload))

\* the injected request_func is called with params: it returns a payload
\* or raises, and nothing in suggest_price catches what it raises
FetchInjected(outcome) ==
    /\ pricing_call.pc = "fetch"
    /\ pricing_cfg.injected
    /\ IF outcome.kind = "exc"
       THEN /\ pricing_call' = [pricing_call EXCEPT !.pc = "raised"]
            /\ pricing_log' = Logged("request_func", 1, FALSE)
            /\ UNCHANGED pricing_cache
       ELSE Complete("request_func", 1, outcome.payload)
    /\ UNCHANGED <<pricing_cfg, pricing_clock, pricing_ticks, pricing_n>>

\* the httpx client is used
FetchHttp(answers) ==
    /\ pricing_call.pc = "fetch"
    /\ ~pricing_cfg.injected
    /\ IF HandlerRaises(answers)
       THEN /\ pricing_call' = [pricing_call EXCEPT !.pc = "raised"]
            /\ pricing_log' = Logged("httpx", HttpGets(answers), FALSE)
            /\ UNCHANGED pricing_cache
       ELSE Complete("httpx", HttpGets(answers), HttpPayload(answers))
    /\ UNCHANGED <<pricing_cfg, pricing_clock, pricing_ticks, pricing_n>>

\* ------------------------------------------------------------------------
\* Specification of the pricing service: sequential suggest_price calls
\* ------------------------------------------------------------------------
PricingRequest(brand, category, size, condition, colour) ==
    [brand |-> brand, category |-> category, size |-> size,
     condition |-> condition, colour |-> colour]

ReqBase == PricingRequest(<<"n">>, <<"h">>, <<"m">>, <<"g">>, <<"r">>)

PricingRequests ==
    { ReqBase,
      [ReqBase EXCEPT !.brand = <<" ", "N">>, !.colour = <<"R", " ">>],
      [ReqBase EXCEPT !.colour = <<"b">>],
      [ReqBase EXCEPT !.brand = <<"a">>],
      [ReqBase EXCEPT !.category = <<"t">>],
      [ReqBase EXCEPT !.size = <<>>],
      [ReqBase EXCEPT !.condition = <<"u">>] }

Payload(p25, med, p75, examples) ==
    [kind |-> "dict", p25_gbp |-> p25, median_price_gbp |-> med,
     p75_gbp |-> p75, examples |-> examples]

PayloadA == Payload(10000, 12000, 15000, <<LstA>>)

\* low below the minimum, no median, high above the maximum
PayloadB == Payload(10, NoValue, 99999, <<>>)

Payloads == {PayloadA, PayloadB, [kind |-> "none"], [kind |-> "array"]}

Ok(payload) == [kind |-> "ok", payload |-> payload]

InjectedOutcomes == {Ok(x) : x \in Payloads} \cup {[kind |-> "exc"]}

HttpAnswers ==
    { <<Ok(PayloadA), [kind |-> "exc"]>>,
      <<[kind |-> "status"], Ok(PayloadB)>>,
      <<[kind |-> "status"], [kind |-> "status"]>>,
      <<[kind |-> "exc"], Ok(PayloadA)>>,
      <<[kind |-> "status"], [kind |-> "exc"]>>,
      <<Ok([kind |-> "array"]), [kind |-> "exc"]>> }

PricingInit ==
    /\ cfg = DefaultCfg
    /\ ServiceIdle
    /\ ParserIdle
    /\ UniqIdle
    /\ StatsIdle
    /\ MathIdle
    /\ QueryIdle
    /\ FetchIdle
    /\ pricing_cfg \in
          {[base_url |-> TRUE, injected |-> TRUE, warnings |-> TRUE],
           [base_url |-> TRUE, injected |-> FALSE, warnings |-> TRUE],
           [base_url |-> TRUE, injected |-> FALSE, warnings |-> FALSE],
           [base_url |-> FALSE, injected |-> FALSE, warnings |-> TRUE]}
    /\ pricing_cache = <<>>
    /\ pricing_clock = 0
    /\ pricing_ticks = 0
    /\ pricing_n = 0
    /\ pricing_call = PricingCallIdle
    /\ pricing_log = <<>>

notPricing == <<cfg, service, parserVars, uniqVars, statsVars, mathVars,
                queryVars, fetchVars>>

PricingNext ==
    \/ PricingTick /\ UNCHANGED notPricing
    \/ \E r \in PricingRequests : Suggest(r) /\ UNCHANGED notPricing
    \/ \E o \in InjectedOutcomes : FetchInjected(o) /\ UNCHANGED notPricing
    \/ \E a \in HttpAnswers : FetchHttp(a) /\ UNCHANGED notPricing

PricingSpec == PricingInit /\ [][PricingNext]_vars

\* ------------------------------------------------------------------------
\* Specification of the fetchers: fetch_vinted_api on the answers to the
\* two api_urls, fetch_vinted_html on the answer to the catalog GET
\* ------------------------------------------------------------------------
FetchResponses ==
    { Exc,
      ApiResp("status", <<ItA>>, <<>>),
      ApiResp("badjson", <<>>, <<>>),
      ApiResp("array", <<>>, <<>>),
      ApiResp("obj", <<>>, <<>>),
      ApiResp("obj", <<ItA, ItB>>, <<>>),
      ApiResp("obj", <<>>, <<ItC>>),
      ApiResp("obj", <<ItA, NotADict, ItB>>, <<>>),
      ApiResp("obj", <<NotADict>>, <<>>) }

FetchSessions == FetchResponses \X FetchResponses

FetchPages ==
    HtmlPages \cup
        { HtmlResp("status", <<AnchorH1>>),
          HtmlResp("page", <<>>),
          HtmlResp("page", <<AnchorH2>>) }

FetchInit ==
    /\ cfg = DefaultCfg
    /\ ServiceIdle
    /\ ParserIdle
    /\ UniqIdle
    /\ StatsIdle
    /\ MathIdle
    /\ QueryIdle
    /\ PricingIdle
    /\ fetch_out = <<>>
    /\ \/ fetch_pc = "api" /\ fetch_in \in FetchSessions
       \/ fetch_pc = "html" /\ fetch_in \in FetchPages

FetchApi ==
    /\ fetch_pc = "api"
    /\ IF ApiEscapes(fetch_in)
       THEN fetch_pc' = "raised" /\ fetch_out' = <<>>
       ELSE fetch_pc' = "api_done" /\ fetch_out' = fetch_vinted_api(fetch_in)
    /\ UNCHANGED <<cfg, service, fetch_in, parserVars, uniqVars, statsVars,
                   mathVars, queryVars, pricingVars>>

FetchHtml ==
    /\ fetch_pc = "html"
    /\ IF HtmlEscapes(fetch_in)
       THEN fetch_pc' = "raised" /\ fetch_out' = <<>>
       ELSE fetch_pc' = "html_done" /\ fetch_out' = fetch_vinted_html(fetch_in)
    /\ UNCHANGED <<cfg, service, fetch_in, parserVars, uniqVars, statsVars,
                   mathVars, queryVars, pricingVars>>

FetchNext == FetchApi \/ FetchHtml

FetchSpec == FetchInit /\ [][FetchNext]_vars

\* ------------------------------------------------------------------------
\* Properties
\* ------------------------------------------------------------------------
Cascade == <<"api", "html", "cloudscraper-api", "cloudscraper-html">>

AllEmpty(inv) == \A i \in 1..Len(inv) : inv[i].returned = <<>>

\* thread t starts an invocation in this step
StartStep(t) == ncalls' = ncalls + 1 /\ call'[t] # call[t]

\* thread t leaves the miss path with a result in this step
FinishStep(t) == call[t].pc = "finish" /\ call'[t].pc = "returned"

\* C1: in an invocation that misses the cache the fetchers are invoked in the
\* order api, html, cloudscraper-api, cloudscraper-html, each at most once,
\* none after a fetcher returned a non-empty list, and the listings that go
\* on to the statistics are those of the last fetcher invoked.
C1_CascadeShortCircuit ==
    \A t \in Threads :
        LET inv == call[t].invoked
        IN  /\ Len(inv) <= Len(Cascade)
            /\ \A i \in 1..Len(inv) : inv[i].fetcher = Cascade[i]
            /\ \A i \in 1..Len(inv) : i < Len(inv) => inv[i].returned = <<>>
            /\ call[t].pc = "finish" =>
                  /\ Len(inv) >= 1
                  /\ call[t].items = inv[Len(inv)].returned

C1_Witness ==
    \E t \in Threads :
        /\ call[t].pc = "finish"
        /\ Len(call[t].invoked) = 1
        /\ call[t].invoked[1].fetcher = "api"
        /\ call[t].invoked[1].returned # <<>>

\* C2: when every fetcher invoked returned an empty list, get_comps returns
\* (does not raise) a result with count 0, null median, p25 and p75, and an
\* empty examples list.
C2_ZeroResultShape ==
    [][\A t \in Threads :
        (call[t].pc = "finish" /\ call'[t] # call[t]
            /\ AllEmpty(call[t].invoked))
        => /\ call'[t].pc = "returned"
           /\ call'[t].result.count = 0
           /\ call'[t].result.median_price_gbp = NoValue
           /\ call'[t].result.p25_gbp = NoValue
           /\ call'[t].result.p75_gbp = NoValue
           /\ call'[t].result.examples = <<>>]_vars

C2_Witness ==
    \E t \in Threads :
        /\ call[t].pc = "returned"
        /\ "cache" \notin DOMAIN call[t].result
        /\ call[t].result.count = 0
        /\ call[t].result.median_price_gbp = NoValue
        /\ call[t].result.source = "cloudscraper-api"

\* C3: an invocation that finds an entry for its query with
\* now - created_at < CACHE_TTL invokes no fetcher and returns the entry's
\* query, count, median, p25, p75, examples and source plus cache = true;
\* one that finds the entry with now - created_at >= CACHE_TTL runs the
\* cascade, and a result of the cascade carries no cache field.  The entry is
\* the result the writing invocation returned, stamped with its now_ts.
C3_CacheFreshness ==
    [][\A t \in Threads :
        /\ StartStep(t) =>
             LET q == call'[t].q
             IN  /\ (q \in DOMAIN cache /\ clock - cache[q].t < CACHE_TTL) =>
                       /\ call'[t].pc = "returned"
                       /\ call'[t].invoked = <<>>
                       /\ "cache" \in DOMAIN call'[t].result
                       /\ call'[t].result.cache = TRUE
                       /\ \A k \in ResultKeys :
                             call'[t].result[k] = cache[q].data[k]
                 /\ (q \in DOMAIN cache /\ clock - cache[q].t >= CACHE_TTL) =>
                       call'[t].pc = "api"
        /\ FinishStep(t) =>
             /\ "cache" \notin DOMAIN call'[t].result
             /\ cache'[call[t].q] =
                   [t |-> call[t].now_ts, data |-> call'[t].result]]_vars

C3_Witness ==
    \E t \in Threads :
        /\ call[t].pc = "returned"
        /\ "cache" \in DOMAIN call[t].result
        /\ call[t].result.count > 0
        /\ call[t].q \in DOMAIN cache
        /\ clock > cache[call[t].q].t

\* C4: whatever the upstream does, get_comps does not raise and returns an
\* object with all of query, count, median_price_gbp, p25_gbp, p75_gbp,
\* examples, source, outlier_filter and clamp.
C4_NeverRaises ==
    \A t \in Threads :
        /\ call[t].pc # "raised"
        /\ call[t].pc = "returned" => ResultKeys \subseteq DOMAIN call[t].result

\* C5: every price produced by extract_price_from_text or by the API item
\* coercion is strictly between 0 and 10000 pounds after rounding.
C5_PriceInRange ==
    (parse_pc \in {"extracted", "coerced"} /\ parse_out # NoValue)
    => (0 < parse_out /\ parse_out < 10000 * 100)

ClampSurvivors(raw) ==
    SelectSeq(raw, LAMBDA v : cfg.CLAMP_MIN <= v /\ v <= cfg.CLAMP_MAX)

ThenIqr(prices) ==
    IF cfg.ENABLE_OUTLIER_FILTER THEN iqr_filter(prices) ELSE prices

C7_CountIsRawCount ==
    [][\A t \in Threads :
        FinishStep(t) =>
            call'[t].result.count =
                Len(Take(uniq(call[t].items), MAX_ITEMS))]_vars

\* seven listings, one of them dropped by the default clamp
C7_Witness ==
    /\ cfg = DefaultCfg
    /\ \E t \in Threads :
        /\ call[t].pc = "returned"
        /\ "cache" \notin DOMAIN call[t].result
        /\ call[t].result.count = 7
        /\ call[t].result.median_price_gbp = 1200

\* C8: extract_price_from_text maps "£1,299.00" to 1299.00, "47,95" to
\* 47.95, "4795" to 47.95 and "71.08 1" to 71.08.
C8_ParseExamples ==
    parse_pc = "extracted" =>
        /\ parse_text = TxtPounds1299 => parse_out = 129900
        /\ parse_text = TxtComma4795 => parse_out = 4795
        /\ parse_text = TxtPence4795 => parse_out = 4795
        /\ parse_text = TxtSpaced7108 => parse_out = 7108

C8_Witness ==
    /\ parse_pc = "extracted"
    /\ parse_text = TxtPence4795
    /\ parse_out = 4795

\* C9 as claimed: extract_price_from_text returns no value for "£99,999".
C9_Rejected ==
    (parse_pc = "extracted" /\ parse_text = TxtPounds99999)
    => parse_out = NoValue

\* C9 amended: extract_price_from_text returns 100.00 for "£99,999" (the
\* comma is read as a decimal separator and 99.999 is rounded).
C9_DecimalComma ==
    (parse_pc = "extracted" /\ parse_text = TxtPounds99999)
    => parse_out = 10000

C9_Witness ==
    /\ parse_pc = "extracted"
    /\ parse_text = TxtPounds99999
    /\ parse_out # NoValue

\* indexes of the first occurrence of each (url, title, price_gbp) triple
FirstIdx(s) ==
    {i \in 1..Len(s) : \A j \in 1..(i - 1) : <<s[j].url, s[j].title,
        s[j].price_gbp>> # <<s[i].url, s[i].title, s[i].price_gbp>>}

\* C10: on listings with string urls uniq returns the subsequence of the
\* first occurrences of the distinct (url, title, price_gbp) triples, in
\* input order; [A, B, A, C] gives [A, B, C].
C10_FirstOccurrences ==
    (uniq_pc # "input" /\ \A i \in 1..Len(uniq_in) : uniq_in[i].url.kind # "list")
    => /\ uniq_pc = "done"
       /\ Len(uniq_out) = Cardinality(FirstIdx(uniq_in))
       /\ \E f \in [1..Len(uniq_out) -> 1..Len(uniq_in)] :
            /\ \A k \in 1..Len(uniq_out) :
                  f[k] \in FirstIdx(uniq_in) /\ uniq_out[k] = uniq_in[f[k]]
            /\ \A k \in 1..(Len(uniq_out) - 1) : f[k] < f[k + 1]
       /\ uniq_in = <<LstA, LstB, LstA, LstC>>
            => uniq_out = <<LstA, LstB, LstC>>

C10_Witness ==
    /\ uniq_pc = "done"
    /\ uniq_in = <<LstA, LstB, LstA, LstC>>
    /\ uniq_out = <<LstA, LstB, LstC>>

\* the k-th smallest element of s, by rank and not by sorting
Kth(s, k) ==
    CHOOSE x \in {s[i] : i \in 1..Len(s)} :
        /\ Cardinality({i \in 1..Len(s) : s[i] < x}) < k
        /\ k <= Cardinality({i \in 1..Len(s) : s[i] <= x})

\* four times the conventional median of a non-empty sequence
ConventionalMedian4(s) ==
    IF Len(s) % 2 = 1 THEN 4 * Kth(s, (Len(s) + 1) \div 2)
    ELSE 2 * (Kth(s, Len(s) \div 2) + Kth(s, Len(s) \div 2 + 1))

\* C11: pct(seq, 50) and median(seq) are the conventional median of a
\* non-empty sequence (middle element for odd length, mean of the two middle
\* elements for even length), and pct of the empty sequence is no value.
C11_MedianConventional ==
    math_pc = "pct_done" /\ math_p = 50 =>
        IF math_in = <<>> THEN math_out = NoValue /\ median(math_in) = NoValue
        ELSE /\ math_out = ConventionalMedian4(math_in)
             /\ median(math_in) = ConventionalMedian4(math_in)

C11_Witness ==
    /\ math_pc = "pct_done"
    /\ math_p = 50
    /\ math_in = <<100000, 1000, 1300, 1000>>
    /\ math_out = 4 * 1150

\* compute_stats has returned for the prices 10, 12, 11, 13, 14, 12, 1000
\* with clamp bounds [2, 500] and the outlier filter enabled
SevenDone ==
    /\ stats_pc = "done"
    /\ stats_in = ListingsOf(SevenPrices)
    /\ cfg = DefaultCfg

SixKept ==
    /\ stats_out.prices = <<1000, 1200, 1100, 1300, 1400, 1200>>
    /\ stats_out.raw_count = 7
    /\ stats_out.used_count = 6

\* C12 as stated: on 10, 12, 11, 13, 14, 12, 1000 the six clamped values are
\* kept by clamp and IQR filter and the statistics are median 12.0,
\* p25 11.0 and p75 13.0.
C12_RoundQuartiles ==
    SevenDone =>
        /\ SixKept
        /\ stats_out.median = 1200
        /\ stats_out.p25 = 1100
        /\ stats_out.p75 = 1300

\* C12 amended: on 10, 12, 11, 13, 14, 12, 1000 the six clamped values are
\* kept by clamp and IQR filter, raw_count is 7, used_count is 6, and the
\* statistics are median 12.0, p25 11.25 and p75 12.75.
C12_InterpolatedQuartiles ==
    SevenDone =>
        /\ SixKept
        /\ stats_out.median = 1200
        /\ stats_out.p25 = 1125
        /\ stats_out.p75 = 1275

C12_Witness == SevenDone /\ stats_out.used_count = 6 /\ stats_out.p25 = 1125

\* C13: iqr_filter returns a sequence of fewer than 6 elements unchanged,
\* same elements in the same order.
C13_IqrIdentityBelowSix ==
    math_pc = "iqr_done" /\ Len(math_in) < 6 => math_out = math_in

\* five values with an outlier that the filter would drop from a longer list
C13_Witness ==
    /\ math_pc = "iqr_done"
    /\ math_in = <<1000, 100000, 1000, 1300, 1000>>
    /\ math_out = math_in

NormalizeOf(q) == normalize_query(q[1], q[2], q[3], q[4])

\* attribute k of q with l put before it and r after it
Padded(q, k, l, r) == [q EXCEPT ![k] = l \o @ \o r]

Blank(x) == \A i \in 1..Len(x) : x[i] \in WhiteSpace

\* no white space at either end and no two white-space characters in a row
Tidy(x) ==
    /\ x # <<>> => x[1] \notin WhiteSpace /\ x[Len(x)] \notin WhiteSpace
    /\ \A i \in 1..(Len(x) - 1) :
          ~(x[i] \in WhiteSpace /\ x[i + 1] \in WhiteSpace)

\* C14: normalize_query is unchanged by white space added before or after
\* any attribute, its output has no leading or trailing white space and no
\* run of two or more white-space characters, is empty when all four
\* attributes are blank, and is a fixed point when passed back as the only
\* attribute.
C14_NormalizeQuery ==
    query_pc = "done" =>
        /\ Tidy(query_out)
        /\ (\A k \in 1..4 : Blank(query_in[k])) => query_out = <<>>
        /\ \A k \in 1..4 : \A w \in WhiteSpace :
              /\ NormalizeOf(Padded(query_in, k, <<w>>, <<>>)) = query_out
              /\ NormalizeOf(Padded(query_in, k, <<>>, <<w>>)) = query_out
        /\ NormalizeOf(<<query_out, <<>>, <<>>, <<>> >>) = query_out

C14_Witness ==
    /\ query_pc = "done"
    /\ query_in = << <<" ", "a">>, <<"a", " ", " ", "b">>, <<" ", " ">>,
                     <<"nbsp", "b", "nbsp">> >>
    /\ query_out = <<"a", " ", "a", " ", "b", " ", "b">>

\* thread t is answered from the cache in this step
HitStep(t) == StartStep(t) /\ call'[t].pc = "returned"

\* C15: a cache hit leaves the cache as it was (no entry added, timestamp
\* and stored result of the hit entry untouched); no stored result ever
\* carries the cache field; the copy returned by a hit carries cache = true
\* and a result returned on the miss path carries no cache field.
C15_HitLeavesCache ==
    [][/\ \A k \in DOMAIN cache' : DOMAIN cache'[k].data = ResultKeys
       /\ \A t \in Threads :
            /\ HitStep(t) =>
                 /\ cache' = cache
                 /\ DOMAIN call'[t].result = ResultKeys \cup {"cache"}
                 /\ call'[t].result.cache = TRUE
            /\ FinishStep(t) => DOMAIN call'[t].result = ResultKeys]_vars

\* a hit served half a TTL after the write: the entry keeps its timestamp
C15_Witness ==
    \E t \in Threads :
        /\ call[t].pc = "returned"
        /\ DOMAIN call[t].result = ResultKeys \cup {"cache"}
        /\ cache[call[t].q].t = 0
        /\ clock = TickStep
        /\ DOMAIN cache[call[t].q].data = ResultKeys

\* the {timestamp, result} pair that the invocation of thread t produces
\* in the step in which it finishes
PairOf(t) == [t |-> call[t].now_ts, data |-> call'[t].result]

\* C16: under every interleaving of invocations, the cache changes only by
\* the write of one finishing invocation, which puts the whole pair of its
\* own timestamp and its own result under its query and leaves every other
\* entry alone; a caller gets either the result its own invocation built or
\* the whole stored result of one entry plus the cache flag.
C16_WholeEntries ==
    [][/\ cache' # cache =>
            \E t \in Threads :
                /\ FinishStep(t)
                /\ DOMAIN cache' = DOMAIN cache \cup {call[t].q}
                /\ cache'[call[t].q] = PairOf(t)
                /\ \A k \in DOMAIN cache : k # call[t].q => cache'[k] = cache[k]
       /\ \A t \in Threads :
            /\ FinishStep(t) =>
                 /\ call'[t].result.query = call[t].q
                 /\ call'[t].result.source = call[t].source
                 /\ call'[t].result.count = Len(uniq(call[t].items))
                 /\ cache'[call[t].q] = PairOf(t)
            /\ HitStep(t) =>
                 call'[t].result = WithCacheFlag(cache[call'[t].q].data)]_vars

\* two invocations missed on the same query, both ran the cascade and both
\* wrote: the entry is the pair of one of them
C16_Witness ==
    \E t1, t2 \in Threads :
        /\ t1 # t2
        /\ call[t1].pc = "returned" /\ call[t2].pc = "returned"
        /\ call[t1].q = call[t2].q
        /\ DOMAIN call[t1].result = ResultKeys
        /\ DOMAIN call[t2].result = ResultKeys
        /\ call[t1].result # call[t2].result
        /\ cache[call[t1].q].data = call[t1].result
        /\ cache[call[t1].q].t > 0

\* a suggest_price call starts in this step, on a service with a base_url
SuggestStep == pricing_n' = pricing_n + 1 /\ pricing_cfg.base_url

\* the call in flight ends its remote fetch in this step
RemoteStep == pricing_call.pc = "fetch" /\ pricing_call'.pc # "fetch"

\* some entry for key has an expiry time later than now
Unexpired(key) ==
    key \in DOMAIN pricing_cache /\ pricing_cache[key].expiry > pricing_clock

\* C17: with a base_url, a suggest_price call whose key has an entry with
\* expiry (time of write + cache_ttl) later than now invokes no remote
\* request and returns the stored estimate; any other call goes to the
\* remote, which is requested only by such a call, and what it stores
\* expires cache_ttl after the write.
C17_RemoteOnlyWhenExpired ==
    [][/\ SuggestStep =>
            LET key == pricing_call'.key
            IN  IF Unexpired(key)
                THEN /\ pricing_call'.pc = "returned"
                     /\ pricing_call'.estimate = pricing_cache[key].estimate
                     /\ pricing_log' = pricing_log
                ELSE pricing_call'.pc = "fetch" /\ pricing_log' = pricing_log
       /\ pricing_log' # pricing_log =>
            /\ RemoteStep
            /\ ~Unexpired(pricing_call.key)
            /\ Len(pricing_log') > Len(pricing_log)
       /\ RemoteStep /\ pricing_call'.pc = "returned" =>
            pricing_cache'[pricing_call.key] =
                [expiry |-> pricing_clock + CACHE_TTL_SECONDS,
                 estimate |-> pricing_call'.estimate]]_vars

\* second call half a TTL after the first: one remote request so far, and
\* the answer is the estimate the first call stored
C17_Witness ==
    /\ pricing_cfg.injected
    /\ pricing_n = 2
    /\ Len(pricing_log) = 1
    /\ pricing_clock = CACHE_TTL_SECONDS \div 2
    /\ pricing_call.pc = "returned"
    /\ pricing_call.estimate.mid = 12000
    /\ pricing_cache[pricing_call.key].expiry = CACHE_TTL_SECONDS

\* the five attributes of a request, trimmed and lower-cased
FiveOf(r) ==
    <<KeyPart(r.brand), KeyPart(r.category), KeyPart(r.size),
      KeyPart(r.colour), KeyPart(r.condition)>>

FiveOfParams(p) ==
    <<KeyPart(p.brand), KeyPart(p.item_type), KeyPart(p.size),
      KeyPart(p.colour), KeyPart(p.condition)>>

\* the params of the remote fetch whose estimate is stored for key
WriterOf(key) ==
    LET idx == {i \in 1..Len(pricing_log) :
                   /\ pricing_log[i].stored
                   /\ <<KeyPart(pricing_log[i].params.brand),
                        KeyPart(pricing_log[i].params.item_type),
                        KeyPart(pricing_log[i].params.size),
                        KeyPart(pricing_log[i].params.condition)>> = key}
    IN  pricing_log[CHOOSE i \in idx : \A j \in idx : j <= i].params

\* C18: the cache is keyed by (brand, category, size, colour, condition):
\* a request answered from the cache is answered from an entry written for
\* the same five attributes, never from one written for another colour.
C18_KeyedByFive ==
    [][SuggestStep /\ pricing_call'.pc = "returned" =>
           FiveOfParams(WriterOf(pricing_call'.key))
               = FiveOf(pricing_call'.request)]_vars

\* the request got no 200 response: transport failure or another status
NoAnswer(resp) == resp.kind \in {"exc", "status"}

\* C19: fetch_vinted_api and fetch_vinted_html never raise, whatever the
\* session does (exception from session.get, non-200 status, r.json()
\* failure, unexpected shape): each returns a list, and the list is empty
\* when every request it issues meets a transport failure or a non-200
\* status.
C19_FetchersNeverRaise ==
    /\ fetch_pc # "raised"
    /\ fetch_pc = "api_done" =>
          /\ fetch_out \in Seq({fetch_out[i] : i \in 1..Len(fetch_out)})
          /\ NoAnswer(fetch_in[1]) /\ NoAnswer(fetch_in[2]) => fetch_out = <<>>
    /\ fetch_pc = "html_done" =>
          /\ fetch_out \in Seq({fetch_out[i] : i \in 1..Len(fetch_out)})
          /\ NoAnswer(fetch_in) => fetch_out = <<>>

\* the first request is answered 200 with a non-object among the items and
\* the second with a status other than 200 and a body: the function returns
C19_Witness ==
    /\ fetch_pc = "api_done"
    /\ fetch_in = <<ApiResp("obj", <<NotADict>>, <<>>),
                    ApiResp("status", <<ItA>>, <<>>)>>
    /\ fetch_out = <<>>

\* a 200 response during whose handling an exception is raised
ShapeError(resp) == ~NoAnswer(resp) /\ ApiFailure(resp, <<>>) # "none"

\* C20: when an exception is raised while fetch_vinted_api extracts the
\* listings of a 200 response, the listings extracted from that response
\* before the failure are not returned: with every response either failing
\* so or getting no answer, the returned list is empty.
C20_ShapeErrorGivesEmpty ==
    (/\ fetch_pc = "api_done"
     /\ \A i \in 1..2 : NoAnswer(fetch_in[i]) \/ ShapeError(fetch_in[i])
     /\ \E i \in 1..2 : ShapeError(fetch_in[i]))
    => fetch_out = <<>>

\* no url occurs twice in the list of GETs
NoRepeat(gets) == \A i, j \in 1..Len(gets) : gets[i] = gets[j] => i = j

C22_StampedAtWrite ==
    [][\A t \in Threads :
        FinishStep(t) =>
            /\ cache'[call[t].q].t = clock'
            /\ clock' - cache'[call[t].q].t < CACHE_TTL]_vars

\* C23 as claimed: the source tag of a result built on the miss path names
\* a fetcher invoked in this call whose returned list is non-empty and is
\* the list used for the statistics.
C23_TagNamesWinner ==
    [][\A t \in Threads :
        FinishStep(t) =>
            \E i \in 1..Len(call[t].invoked) :
                /\ call[t].invoked[i].fetcher = call'[t].result.source
                /\ call[t].invoked[i].returned # <<>>
                /\ call[t].invoked[i].returned = call[t].items]_vars

\* C23 amended: when a fetcher returned a non-empty list, the tag names
\* that fetcher, the last one invoked, whose list is the one used for the
\* statistics; when every fetcher returned an empty list the tag is still
\* set: "cloudscraper-api" when the cloudscraper transport is available
\* and "html" when it is not, each the tag of a fetcher that was invoked
\* and returned nothing.
C23_TagOfLastOrFallback ==
    [][\A t \in Threads :
        FinishStep(t) =>
            LET inv  == call[t].invoked
                last == inv[Len(inv)]
            IN  /\ last.returned = call[t].items
                /\ last.returned # <<>> =>
                      call'[t].result.source = last.fetcher
                /\ last.returned = <<>> =>
                      /\ AllEmpty(inv)
                      /\ call'[t].result.source =
                            IF cfg.cloudscraper THEN "cloudscraper-api"
                            ELSE "html"
                      /\ \E i \in 1..Len(inv) :
                            inv[i].fetcher = call'[t].result.source]_vars

\* the fourth fetcher won
C23_Witness ==
    \E t \in Threads :
        /\ call[t].pc = "returned"
        /\ "cache" \notin DOMAIN call[t].result
        /\ call[t].result.source = "cloudscraper-html"
        /\ call[t].result.count > 0

\* text[i..j] is one contiguous numeric run: digits, commas and dots only
NumericRun(text, i, j) ==
    /\ i <= j
    /\ \A k \in i..j : text[k] \in Digits \cup {",", "."}

\* C24: extract_price_from_text tries the run after a pound sign, then the
\* run before GBP, then the whole text, and returns the first outcome that
\* is not None; the value returned is the amount of one contiguous numeric
\* run of the text: digits of separate runs are never joined into one
\* amount.
C24_FirstSingleRun ==
    parse_pc = "extracted" =>
        /\ parse_out =
              IF GroupPrice(PoundGroup(parse_text)) # NoValue
              THEN GroupPrice(PoundGroup(parse_text))
              ELSE IF GroupPrice(CodeGroup(parse_text)) # NoValue
              THEN GroupPrice(CodeGroup(parse_text))
              ELSE _normalize_amount_string(parse_text)
        /\ parse_out # NoValue =>
              \E i, j \in 1..Len(parse_text) :
                  /\ NumericRun(parse_text, i, j)
                  /\ _normalize_amount_string(SubSeq(parse_text, i, j))
                        = parse_out

\* C25: the median, p25 and p75 that compute_stats hands to the result of
\* get_comps are all null when the count (raw_count) is 0 and all non-null
\* otherwise: whatever the clamp bounds and the outlier flag, the clamp with
\* its fallback followed by the IQR filter leaves a non-empty price list
\* non-empty.
C25_NullIffNoListing ==
    stats_pc = "done" =>
        /\ CountOf(stats_out) = 0 =>
              /\ stats_out.median = NoValue
              /\ stats_out.p25 = NoValue
              /\ stats_out.p75 = NoValue
        /\ CountOf(stats_out) # 0 =>
              /\ stats_out.median # NoValue
              /\ stats_out.p25 # NoValue
              /\ stats_out.p75 # NoValue
              /\ stats_out.prices # <<>>

\* six or more prices, none inside the clamp bounds: the clamp keeps
\* nothing, the raw list is used and goes through the IQR filter
C25_Witness ==
    /\ stats_pc = "done"
    /\ cfg.ENABLE_OUTLIER_FILTER
    /\ stats_out.raw_count >= 6
    /\ Clamped(PricesOf(stats_in)) = <<>>
    /\ stats_out.median # NoValue

\* the prices of the listings given to compute_stats
ReachedStats == {PricesOf(stats_in)[i] : i \in 1..Len(PricesOf(stats_in))}

\* C26: when the statistics are not null, p25 <= median <= p75 and all
\* three lie between the smallest and the largest price of the listings
\* that reached the statistics stage.
C26_QuartilesOrdered ==
    (stats_pc = "done" /\ stats_out.median # NoValue) =>
        /\ stats_out.p25 <= stats_out.median
        /\ stats_out.median <= stats_out.p75
        /\ \A v \in {stats_out.p25, stats_out.median, stats_out.p75} :
              /\ \E lo \in ReachedStats : lo <= v
              /\ \E hi \in ReachedStats : v <= hi

\* three different statistics strictly inside the range of the prices
C26_Witness ==
    /\ stats_pc = "done"
    /\ stats_out.median # NoValue
    /\ stats_out.p25 < stats_out.median
    /\ stats_out.median < stats_out.p75
    /\ \E lo \in ReachedStats : lo < stats_out.p25
    /\ \E hi \in ReachedStats : stats_out.p75 < hi

\* C27: a result without listings is written to the cache like any other:
\* the invocation in which every fetcher returned an empty list stores its
\* count = 0 result under its query, and every invocation for that query
\* that starts while the entry is fresh returns count = 0 with cache = true
\* and invokes no fetcher, whatever the upstream would answer now.
C27_ZeroResultCached ==
    [][\A t \in Threads :
        /\ (FinishStep(t) /\ AllEmpty(call[t].invoked)) =>
              /\ call[t].q \in DOMAIN cache'
              /\ cache'[call[t].q].data.count = 0
              /\ cache'[call[t].q].t = call[t].now_ts
        /\ (/\ StartStep(t)
            /\ call'[t].q \in DOMAIN cache
            /\ clock - cache[call'[t].q].t < CACHE_TTL
            /\ cache[call'[t].q].data.count = 0) =>
              /\ call'[t].pc = "returned"
              /\ call'[t].invoked = <<>>
              /\ call'[t].result.count = 0
              /\ call'[t].result.cache = TRUE]_vars

\* a count = 0 result served from the cache after the clock has advanced
C27_Witness ==
    \E t \in Threads :
        /\ call[t].pc = "returned"
        /\ "cache" \in DOMAIN call[t].result
        /\ call[t].result.count = 0
        /\ clock > cache[call[t].q].t

\* C28: under any interleaving of concurrent get_comps invocations, the
\* created_at of the cache entry of a query never decreases from one write
\* to the next.
C28_CreatedAtMonotone ==
    [][\A q \in DOMAIN cache :
        q \in DOMAIN cache' /\ cache'[q].t >= cache[q].t]_vars

\* C29: when fewer than 6 listings reach compute_stats no price is removed:
\* the clamped list is discarded for the raw one and the IQR filter is the
\* identity, so used_count = raw_count and the median and the quartiles
\* are those of all the raw prices, prices outside [CLAMP_MIN, CLAMP_MAX]
\* included.
C29_FewListingsUnfiltered ==
    (stats_pc = "done" /\ Len(stats_in) < 6) =>
        /\ stats_out.prices = PricesOf(stats_in)
        /\ stats_out.used_count = stats_out.raw_count
        /\ stats_out.raw_count = Len(stats_in)
        /\ stats_in # <<>> =>
              /\ stats_out.median = RoundQ(pct(PricesOf(stats_in), 50))
              /\ stats_out.p25 = RoundQ(pct(PricesOf(stats_in), 25))
              /\ stats_out.p75 = RoundQ(pct(PricesOf(stats_in), 75))

\* five listings, three inside the clamp bounds and two outside, with the
\* outlier filter on: all five are used
C29_Witness ==
    /\ stats_pc = "done"
    /\ cfg.ENABLE_OUTLIER_FILTER
    /\ Len(stats_in) = 5
    /\ Len(Clamped(PricesOf(stats_in))) = 3
    /\ stats_out.used_count = 5

\* C30: when the HTTP request of _fetch_remote fails with an exception (no
\* injected request function), suggest_price does not raise: it returns,
\* and stores under the key of the request, an empty PriceEstimate with low,
\* mid and high null and no examples.
C30_TransportFailureSwallowed ==
    [][\A a \in HttpAnswers :
        (HttpFails(a) /\ FetchHttp(a)) =>
            /\ pricing_call'.pc = "returned"
            /\ pricing_call'.estimate = EmptyEstimate
            /\ pricing_call.key \in DOMAIN pricing_cache'
            /\ pricing_cache'[pricing_call.key].estimate = EmptyEstimate]_vars

====
